---- MODULE Spec2Model ----
(***************************************************************************)
(* Model of the git-backed configuration poller                            *)
(* (plugins/in_git_config/git_config.c): the three pointer files cur.ref,  *)
(* new.ref, old.ref, the rendered artifacts, the operations config_add /   *)
(* config_commit / config_rollback and one collector tick                  *)
(* (cb_git_config_collect), one action per filesystem step so that the    *)
(* process can be killed between any two of them.                          *)
(*                                                                         *)
(* Strings are sequences of one-character strings.  The environment        *)
(* failures modelled are the ones the code tests for: fopen, fprintf and   *)
(* rename in config_set_ref, the git calls, the file creation in           *)
(* create_config_with_include and the three exits of execute_reload.       *)
(***************************************************************************)
EXTENDS Integers, Sequences, FiniteSets, TLC

\* ------------------------------------------------------------------ bounds
NumShas == 2

\* ------------------------------------------------------- program constants
ShaLen == 40

\* ----------------------------------------------------------------- strings
NULL == <<"NULL">>
NoFile == <<"ENOENT">>
Unreadable == <<"EACCES">>
Dangling == <<"FREED">>
FLB_DIRCHAR == "/"
NewLine == "\n"
YamlExt == <<".", "y", "a", "m", "l">>
HexChars == <<"a", "b", "c", "d", "e", "f">>
configs_path == <<"/", "g">>
LocalConf == <<"/", "f", "b", ".", "y", "a", "m", "l">>

ShaOf(i) == [k \in 1..ShaLen |-> HexChars[i]]
Shas == {ShaOf(i) : i \in 1..NumShas}

RefNames == {"cur", "new", "old"}

\* the canonical file of a slot
config_ref_filename(ref_name) == <<ref_name, ".ref">>

\* faulty variant: config_set_ref writes the canonical file in place
temp_filename_in_place(ref_filename) == ref_filename

\* the file config_set_ref writes before it renames
temp_filename(ref_filename) == ref_filename \o <<".tmp">>

RefFiles == {config_ref_filename(n) : n \in RefNames} \cup {temp_filename(config_ref_filename(n)) : n \in RefNames}

get_config_path_for_sha(sha) == configs_path \o <<FLB_DIRCHAR>> \o sha \o YamlExt

Paths == {get_config_path_for_sha(s) : s \in Shas}

\* strrchr: index of the last occurrence of ch in s, 0 when there is none
StrRChr(s, ch) ==
    LET hits == {i \in 1..Len(s) : s[i] = ch}
    IN  IF hits = {} THEN 0 ELSE CHOOSE i \in hits : \A j \in hits : j <= i

\* strchr: index of the first occurrence of ch in s, 0 when there is none
StrChr(s, ch) ==
    LET hits == {i \in 1..Len(s) : s[i] = ch}
    IN  IF hits = {} THEN 0 ELSE CHOOSE i \in hits : \A j \in hits : i <= j

\* strstr: index of the first occurrence of sub in s, 0 when there is none
StrStr(s, sub) ==
    LET hits == {i \in 1..(Len(s) - Len(sub) + 1) : SubSeq(s, i, i + Len(sub) - 1) = sub}
    IN  IF hits = {} THEN 0 ELSE CHOOSE i \in hits : \A j \in hits : i <= j

\* faulty variant: the length of the name before ".yaml" is not checked
extract_sha_any_length(config_path) ==
    IF config_path = NULL THEN NULL
    ELSE LET sep == StrRChr(config_path, FLB_DIRCHAR)
             base == SubSeq(config_path, sep + 1, Len(config_path))
             ext == StrStr(base, YamlExt)
         IN  IF ext = 0 THEN NULL
             ELSE SubSeq(base, 1, ext - 1)

extract_sha_from_config_path(config_path) ==
    IF config_path = NULL THEN NULL
    ELSE LET sep == StrRChr(config_path, FLB_DIRCHAR)
             base == SubSeq(config_path, sep + 1, Len(config_path))
             ext == StrStr(base, YamlExt)
         IN  IF ext = 0 THEN NULL
             ELSE IF ext - 1 # ShaLen THEN NULL
             ELSE SubSeq(base, 1, ShaLen)

\* what fprintf(fp, "%s\n", config_path) puts in the file
RefLine(config_path) == config_path \o <<NewLine>>

\* a file cut short by a kill in the middle of the write
TornLine(config_path) == SubSeq(config_path, 1, Len(config_path) \div 2)

\* faulty variant: the trailing newline is left in the path
ReadLineKeepNewline(content) ==
    IF content = NoFile \/ content = Unreadable THEN NULL
    ELSE IF Len(content) = 0 THEN NULL
    ELSE content

\* faulty variant: an empty file gives an empty path instead of NULL
ReadLineEmptyIsPath(content) ==
    IF content = NoFile \/ content = Unreadable THEN NULL
    ELSE LET nl == StrChr(content, NewLine)
         IN  IF nl = 0 THEN content ELSE SubSeq(content, 1, nl - 1)

\* fopen, fgets and the stripping of the trailing newline, on the content of a
\* file; fopen fails on a file that is missing or cannot be read
ReadLine(content) ==
    IF content = NoFile \/ content = Unreadable THEN NULL
    ELSE IF Len(content) = 0 THEN NULL
    ELSE LET nl == StrChr(content, NewLine)
         IN  IF nl = 0 THEN content ELSE SubSeq(content, 1, nl - 1)


\* ------------------------------------------------------------------- state
VARIABLES
    fs,                     \* content of cur.ref, new.ref, old.ref and their .tmp files
    files,                  \* the rendered artifacts that exist under configs/
    remote,                 \* revision id at the head of the remote ref
    pc,                     \* position of the plugin thread
    sr,                     \* arguments of the config_set_ref call in progress
    ret,                    \* result of the operation that has just returned
    pending_reload_config,  \* ctx->pending_reload_config
    coll_fd,                \* ctx->coll_fd
    paused,                 \* the collector is paused
    hot_reloading,          \* config->hot_reloading
    hot_reload_succeeded,   \* config->hot_reload_succeeded
    conf_path_file,         \* config->conf_path_file
    sighup,                 \* a reload signal was sent and not yet taken by the host
    pre,                    \* the store as it was when the current operation began
    tk,                     \* the tick in progress or just ended: store and host at its start, what it did
    staged,                 \* the last config_add that returned FLB_TRUE (its path, cur and old before it), until the next operation
    clean,                  \* no kill inside a tick and no failed config_set_ref so far
    ticked,                 \* at least one tick ran to completion
    everStaged,             \* config_add returned FLB_TRUE at least once
    reload_hist             \* the last reload request execute_reload started: its path, and whether the
                            \* host has reported a successful reload since

storeVars == <<fs, files>>
hostVars == <<hot_reloading, hot_reload_succeeded, conf_path_file, sighup>>
ctxVars == <<pending_reload_config, coll_fd, paused>>
frameVars == <<sr, ret, pre>>
histVars == <<staged, clean, ticked, everStaged, reload_hist>>
vars == <<fs, files, remote, pc, sr, ret, pending_reload_config, coll_fd, paused, hot_reloading, hot_reload_succeeded, conf_path_file, sighup, pre, tk, staged, clean, ticked, everStaged, reload_hist>>

NoFrame == [ref_name |-> "none", config_path |-> NULL, caller |-> "none", prior |-> NoFile]
PreNone == [cur |-> NULL, new |-> NULL, old |-> NULL, files |-> {}]
NoStaged == [config_path |-> NULL, cur0 |-> NULL, old0 |-> NULL]
NoReloadHist == [path |-> NULL, reported |-> FALSE]
TkNone == [cur |-> NULL, new |-> NULL, old |-> NULL, files |-> {}, hot_reloading |-> FALSE,
           hot_reload_succeeded |-> FALSE, conf_path_file |-> NULL, sighup |-> FALSE, events |-> {}]

\* ------------------------------------------------------------ store reads
config_deref(ref_name) == ReadLine(fs[config_ref_filename(ref_name)])

\* faulty variant: the file the pointer names is not probed
config_ref_exists_pointer_only(ref_name) == config_deref(ref_name) # NULL

\* config_deref, then access(config_path, F_OK)
config_ref_exists(ref_name) ==
    LET config_path == config_deref(ref_name)
    IN  config_path # NULL /\ config_path \in files

\* faulty variant: the revision is taken from new.ref
get_current_sha_from_new == extract_sha_from_config_path(config_deref("new"))

\* the revision in the name of the file cur.ref names
get_current_sha == extract_sha_from_config_path(config_deref("cur"))

\* the path the tick stages: get_config_path_for_sha(ctx, remote_sha)
sha_config_path == get_config_path_for_sha(remote)

Snapshot == [cur |-> config_deref("cur"), new |-> config_deref("new"), old |-> config_deref("old"), files |-> files]

TickBegin == [cur |-> config_deref("cur"), new |-> config_deref("new"), old |-> config_deref("old"), files |-> files,
              hot_reloading |-> hot_reloading, hot_reload_succeeded |-> hot_reload_succeeded,
              conf_path_file |-> conf_path_file, sighup |-> sighup, events |-> {}]

\* strcmp(a, b) == 0; reading a freed string can give either answer
StrEq(a, b) == IF a = Dangling \/ b = Dangling THEN BOOLEAN ELSE {a = b}

\* the paths a string may turn out to name: itself, or anything once freed
StrEqPaths(a) == IF a = Dangling THEN Paths ELSE {a}

\* faulty variant: the running file is compared with the target of cur
is_new_config_against_cur ==
    IF conf_path_file = NULL THEN {FALSE}
    ELSE IF config_deref("cur") = NULL THEN {FALSE}
    ELSE StrEq(config_deref("cur"), conf_path_file)

\* the values is_new_config can return
is_new_config ==
    IF conf_path_file = NULL THEN {FALSE}
    ELSE IF config_deref("new") = NULL THEN {FALSE}
    ELSE StrEq(config_deref("new"), conf_path_file)

\* the values is_git_config can return
is_git_config ==
    IF conf_path_file = NULL THEN {FALSE}
    ELSE LET present == {n \in RefNames : config_deref(n) # NULL}
         IN  {b \in BOOLEAN :
                 IF b THEN \E n \in present : TRUE \in StrEq(config_deref(n), conf_path_file)
                      ELSE \A n \in present : FALSE \in StrEq(config_deref(n), conf_path_file)}

\* faulty variant: the candidate is preferred to the current configuration
check_existing_config_new_first(using_git) ==
    IF using_git THEN NULL
    ELSE IF config_deref("new") # NULL THEN config_deref("new")
    ELSE IF config_deref("cur") # NULL THEN config_deref("cur")
    ELSE config_deref("old")

\* the path check_existing_config returns when is_git_config returned using_git
check_existing_config(using_git) ==
    IF using_git THEN NULL
    ELSE IF config_deref("cur") # NULL THEN config_deref("cur")
    ELSE IF config_deref("new") # NULL THEN config_deref("new")
    ELSE config_deref("old")

\* ------------------------------------------------------------------- Init
Init ==
    /\ fs = [f \in RefFiles |-> NoFile]
    /\ files = {}
    /\ remote \in Shas
    /\ pc = "init"
    /\ sr = NoFrame
    /\ ret = "none"
    /\ pending_reload_config = NULL
    /\ coll_fd \in {0, 1}
    /\ paused = FALSE
    /\ hot_reloading = FALSE
    /\ hot_reload_succeeded = FALSE
    /\ conf_path_file = LocalConf
    /\ sighup = FALSE
    /\ pre = PreNone
    /\ tk = TkNone
    /\ staged = NoStaged
    /\ clean = TRUE
    /\ ticked = FALSE
    /\ everStaged = FALSE
    /\ reload_hist = NoReloadHist

\* cb_git_config_init: start-up recovery, then the collector is created
cb_git_config_init ==
    /\ pc = "init"
    /\ \E using_git \in is_git_config :
           pending_reload_config' = check_existing_config(using_git)
    /\ paused' = FALSE
    /\ pc' = "idle"
    /\ UNCHANGED <<storeVars, remote, frameVars, coll_fd, hostVars, tk, histVars>>

\* ------------------------------------------------------- execute_reload
\* "early": flb_context_get or an allocation fails; "thread_error": the
\* signal thread cannot be created; "ok": the thread is started
ReloadOutcomes == {"early", "thread_error", "ok"}

\* faulty variant: the collector stays paused when the signal thread cannot be created
execute_reload_no_resume(cfg_path, outcome) ==
    /\ hot_reloading' = hot_reloading
    /\ hot_reload_succeeded' = IF outcome = "early" THEN hot_reload_succeeded ELSE FALSE
    /\ conf_path_file' = CASE outcome = "early" -> conf_path_file
                           [] outcome = "thread_error" -> Dangling
                           [] OTHER -> cfg_path
    /\ paused' = CASE outcome = "early" -> paused
                   [] OTHER -> IF coll_fd > 0 THEN TRUE ELSE paused
    /\ sighup' = IF outcome = "ok" THEN TRUE ELSE sighup
    /\ reload_hist' = IF outcome = "ok"
                      THEN [path |-> cfg_path, reported |-> FALSE]
                      ELSE reload_hist

execute_reload(cfg_path, outcome) ==
    /\ hot_reloading' = hot_reloading
    /\ hot_reload_succeeded' = IF outcome = "early" THEN hot_reload_succeeded ELSE FALSE
    /\ conf_path_file' = CASE outcome = "early" -> conf_path_file
                           [] outcome = "thread_error" -> Dangling
                           [] OTHER -> cfg_path
    /\ paused' = CASE outcome = "early" -> paused
                   [] outcome = "thread_error" -> IF coll_fd > 0 THEN FALSE ELSE paused
                   [] OTHER -> IF coll_fd > 0 THEN TRUE ELSE paused
    /\ sighup' = IF outcome = "ok" THEN TRUE ELSE sighup
    /\ reload_hist' = IF outcome = "ok"
                      THEN [path |-> cfg_path, reported |-> FALSE]
                      ELSE reload_hist

\* -------------------------------------------------- cb_git_config_collect
\* the tick returns to the timer
TickEnd(events) ==
    /\ pc' = "idle"
    /\ ticked' = TRUE
    /\ tk' = [tk EXCEPT !.events = @ \cup events]
    /\ pre' = PreNone
    /\ ret' = "none"

\* faulty variant: the tick goes on after the queued reload was accepted
CollectPendingFallThrough ==
    /\ pc = "idle"
    /\ ~paused
    /\ pending_reload_config # NULL
    /\ \E outcome \in ReloadOutcomes :
           /\ execute_reload(pending_reload_config, outcome)
           /\ pc' = "reconcile"
           /\ ticked' = ticked
           /\ tk' = [TickBegin EXCEPT !.events =
                         IF outcome = "ok" THEN {"pending_reload_ok"} ELSE {"pending_reload_error"}]
    /\ pending_reload_config' = NULL
    /\ UNCHANGED <<storeVars, remote, frameVars, coll_fd, staged, clean, everStaged>>

\* faulty variant: the queued path is kept when execute_reload fails
CollectPendingKeepOnFailure ==
    /\ pc = "idle"
    /\ ~paused
    /\ pending_reload_config # NULL
    /\ \E outcome \in ReloadOutcomes :
           /\ execute_reload(pending_reload_config, outcome)
           /\ IF outcome = "ok"
              THEN /\ pc' = "idle"
                   /\ ticked' = TRUE
                   /\ tk' = [TickBegin EXCEPT !.events = {"pending_reload_ok"}]
                   /\ pending_reload_config' = NULL
              ELSE /\ pc' = "reconcile"
                   /\ ticked' = ticked
                   /\ tk' = [TickBegin EXCEPT !.events = {"pending_reload_error"}]
                   /\ pending_reload_config' = pending_reload_config
    /\ UNCHANGED <<storeVars, remote, frameVars, coll_fd, staged, clean, everStaged>>

\* the timer fires with a reload queued by start-up recovery
CollectPending ==
    /\ pc = "idle"
    /\ ~paused
    /\ pending_reload_config # NULL
    /\ \E outcome \in ReloadOutcomes :
           /\ execute_reload(pending_reload_config, outcome)
           /\ IF outcome = "ok"
              THEN /\ pc' = "idle"
                   /\ ticked' = TRUE
                   /\ tk' = [TickBegin EXCEPT !.events = {"pending_reload_ok"}]
              ELSE /\ pc' = "reconcile"
                   /\ ticked' = ticked
                   /\ tk' = [TickBegin EXCEPT !.events = {"pending_reload_error"}]
    /\ pending_reload_config' = NULL
    /\ UNCHANGED <<storeVars, remote, frameVars, coll_fd, staged, clean, everStaged>>

\* the timer fires with nothing queued
CollectStart ==
    /\ pc = "idle"
    /\ ~paused
    /\ pending_reload_config = NULL
    /\ pc' = "reconcile"
    /\ tk' = TickBegin
    /\ UNCHANGED <<storeVars, remote, frameVars, ctxVars, hostVars, histVars>>

\* config_commit up to its first write
ConfigCommitEnter ==
    IF ~config_ref_exists("new")
    THEN /\ ret' = "fail"
         /\ pc' = "reconciled"
         /\ UNCHANGED <<sr, staged>>
    ELSE /\ sr' = [ref_name |-> "cur", config_path |-> config_deref("new"),
                   caller |-> "commit", prior |-> fs[config_ref_filename("cur")]]
         /\ pc' = "sr_open"
         /\ ret' = "none"
         /\ staged' = NoStaged

\* faulty variant: the outcome of the last reload is not looked at
CommitIfReloadedIgnoreOutcome ==
    /\ pc = "reconcile"
    /\ pre' = Snapshot
    /\ IF hot_reloading = FALSE /\ config_ref_exists("new")
       THEN \E running_new \in is_new_config :
                IF running_new
                THEN /\ ConfigCommitEnter
                     /\ tk' = [tk EXCEPT !.events = @ \cup {"commit"}]
                ELSE /\ pc' = "reconciled"
                     /\ ret' = "skip"
                     /\ UNCHANGED <<sr, staged, tk>>
       ELSE /\ pc' = "reconciled"
            /\ ret' = "skip"
            /\ UNCHANGED <<sr, staged, tk>>
    /\ UNCHANGED <<storeVars, remote, ctxVars, hostVars, clean, ticked, everStaged, reload_hist>>

\* commit_if_reloaded up to the call of config_commit
CommitIfReloaded ==
    /\ pc = "reconcile"
    /\ pre' = Snapshot
    /\ IF hot_reloading = FALSE /\ hot_reload_succeeded = TRUE /\ config_ref_exists("new")
       THEN \E running_new \in is_new_config :
                IF running_new
                THEN /\ ConfigCommitEnter
                     /\ tk' = [tk EXCEPT !.events = @ \cup {"commit"}]
                ELSE /\ pc' = "reconciled"
                     /\ ret' = "skip"
                     /\ UNCHANGED <<sr, staged, tk>>
       ELSE /\ pc' = "reconciled"
            /\ ret' = "skip"
            /\ UNCHANGED <<sr, staged, tk>>
    /\ UNCHANGED <<storeVars, remote, ctxVars, hostVars, clean, ticked, everStaged, reload_hist>>

\* ----------------------------------------------------------- config_set_ref
\* faulty variant: config_add goes on when old.ref could not be written
AfterSetRefIgnoreBackupFailure(caller, ok) ==
    CASE caller = "add_old" -> "add_stale"
      [] caller = "add_new" -> IF ok THEN "add_rmcur" ELSE "add_ret"
      [] caller = "commit" -> IF ok THEN "commit_rmold" ELSE "reconciled"
      [] caller = "rollback" -> IF ok THEN "rb_rmnew" ELSE "rollback_ret"
      [] caller = "direct" -> "set_ret"

\* faulty variant: config_add removes cur.ref although new.ref could not be written
AfterSetRefRemoveCurOnFailure(caller, ok) ==
    CASE caller = "add_old" -> IF ok THEN "add_stale" ELSE "add_ret"
      [] caller = "add_new" -> "add_rmcur"
      [] caller = "commit" -> IF ok THEN "commit_rmold" ELSE "reconciled"
      [] caller = "rollback" -> IF ok THEN "rb_rmnew" ELSE "rollback_ret"
      [] caller = "direct" -> "set_ret"

\* faulty variant: config_commit goes on when cur.ref could not be written
AfterSetRefCommitOnFailure(caller, ok) ==
    CASE caller = "add_old" -> IF ok THEN "add_stale" ELSE "add_ret"
      [] caller = "add_new" -> IF ok THEN "add_rmcur" ELSE "add_ret"
      [] caller = "commit" -> "commit_rmold"
      [] caller = "rollback" -> IF ok THEN "rb_rmnew" ELSE "rollback_ret"
      [] caller = "direct" -> "set_ret"

\* where the caller continues after config_set_ref returned
AfterSetRef(caller, ok) ==
    CASE caller = "add_old" -> IF ok THEN "add_stale" ELSE "add_ret"
      [] caller = "add_new" -> IF ok THEN "add_rmcur" ELSE "add_ret"
      [] caller = "commit" -> IF ok THEN "commit_rmold" ELSE "reconciled"
      [] caller = "rollback" -> IF ok THEN "rb_rmnew" ELSE "rollback_ret"
      [] caller = "direct" -> "set_ret"

SetRefReturn(ok) ==
    /\ pc' = AfterSetRef(sr.caller, ok)
    /\ ret' = IF ok THEN "none" ELSE "io_fail"
    /\ clean' = (clean /\ ok)
    /\ sr' = NoFrame

SrRef == config_ref_filename(sr.ref_name)
SrTemp == temp_filename(config_ref_filename(sr.ref_name))

\* rename(from, to)
Rename(from, to) == IF from = to THEN fs ELSE [fs EXCEPT ![to] = fs[from], ![from] = NoFile]

\* fp = fopen(temp_filename, "w")
SetRefOpen ==
    /\ pc = "sr_open"
    /\ \/ /\ fs' = [fs EXCEPT ![SrTemp] = <<>>]
          /\ pc' = "sr_write"
          /\ UNCHANGED <<sr, ret, clean>>
       \/ /\ fs' = fs
          /\ SetRefReturn(FALSE)
    /\ UNCHANGED <<files, remote, ctxVars, hostVars, pre, tk, staged, ticked, everStaged, reload_hist>>

\* fprintf(fp, "%s\n", config_path): the first part of the line reaches the file
SetRefWrite ==
    /\ pc = "sr_write"
    /\ \/ /\ fs' = [fs EXCEPT ![SrTemp] = TornLine(sr.config_path)]
          /\ pc' = "sr_close"
          /\ UNCHANGED <<sr, ret, clean>>
       \/ /\ fs' = [fs EXCEPT ![SrTemp] = NoFile]
          /\ SetRefReturn(FALSE)
    /\ UNCHANGED <<files, remote, ctxVars, hostVars, pre, tk, staged, ticked, everStaged, reload_hist>>

\* fclose(fp): the whole line is in the file
SetRefClose ==
    /\ pc = "sr_close"
    /\ fs' = [fs EXCEPT ![SrTemp] = RefLine(sr.config_path)]
    /\ pc' = "sr_rename"
    /\ UNCHANGED <<files, remote, sr, ret, ctxVars, hostVars, pre, tk, histVars>>

\* rename(temp_filename, ref_filename)
SetRefRename ==
    /\ pc = "sr_rename"
    /\ \/ /\ fs' = Rename(SrTemp, SrRef)
          /\ SetRefReturn(TRUE)
       \/ /\ fs' = [fs EXCEPT ![SrTemp] = NoFile]
          /\ SetRefReturn(FALSE)
    /\ UNCHANGED <<files, remote, ctxVars, hostVars, pre, tk, staged, ticked, everStaged, reload_hist>>

\* ------------------------------------------------------------ config_commit
\* faulty variant: config_commit leaves the old configuration file on disk
ConfigCommitKeepOld ==
    /\ pc = "commit_rmold"
    /\ pc' = "commit_rmnewref"
    /\ UNCHANGED <<storeVars, remote, frameVars, ctxVars, hostVars, tk, histVars>>

\* remove(old_config_path)
ConfigCommitRemoveOld ==
    /\ pc = "commit_rmold"
    /\ files' = IF config_deref("old") # NULL THEN files \ {config_deref("old")} ELSE files
    /\ pc' = "commit_rmnewref"
    /\ UNCHANGED <<fs, remote, frameVars, ctxVars, hostVars, tk, histVars>>

\* faulty variant: config_commit leaves new.ref in place
ConfigCommitKeepNewRef ==
    /\ pc = "commit_rmnewref"
    /\ pc' = "commit_rmoldref"
    /\ UNCHANGED <<storeVars, remote, frameVars, ctxVars, hostVars, tk, histVars>>

\* remove(new_ref_file)
ConfigCommitRemoveNewRef ==
    /\ pc = "commit_rmnewref"
    /\ fs' = [fs EXCEPT ![config_ref_filename("new")] = NoFile]
    /\ pc' = "commit_rmoldref"
    /\ UNCHANGED <<files, remote, frameVars, ctxVars, hostVars, tk, histVars>>

\* remove(old_ref_file); return FLB_TRUE
ConfigCommitRemoveOldRef ==
    /\ pc = "commit_rmoldref"
    /\ fs' = [fs EXCEPT ![config_ref_filename("old")] = NoFile]
    /\ ret' = "ok"
    /\ pc' = "reconciled"
    /\ UNCHANGED <<files, remote, sr, pre, ctxVars, hostVars, tk, histVars>>

\* ------------------------------------------- poll, sync and render steps
\* "sha_error": flb_git_remote_sha fails; "sync_error": flb_git_sync or
\* flb_git_get_file fails; "ok": the remote answers
GitOutcomes == {"sha_error", "sync_error", "ok"}

\* faulty variant: the configuration file is written before the repository is synchronized
PollRenderBeforeSync ==
    /\ pc = "reconciled"
    /\ \E outcome \in GitOutcomes :
           IF outcome = "sha_error" THEN TickEnd({"sha_error"}) /\ files' = files
           ELSE IF get_current_sha # NULL /\ get_current_sha = remote THEN TickEnd({"unchanged"}) /\ files' = files
           ELSE IF outcome = "sync_error" THEN TickEnd({"sync_error"}) /\ files' = files \cup {sha_config_path}
           ELSE /\ pc' = "render"
                /\ pre' = PreNone
                /\ ret' = "none"
                /\ files' = files
                /\ UNCHANGED <<tk, ticked>>
    /\ UNCHANGED <<fs, remote, sr, ctxVars, hostVars, staged, clean, everStaged, reload_hist>>

\* from the return of commit_if_reloaded to the content of the remote file
Poll ==
    /\ pc = "reconciled"
    /\ \E outcome \in GitOutcomes :
           IF outcome = "sha_error" THEN TickEnd({"sha_error"})
           ELSE IF get_current_sha # NULL /\ get_current_sha = remote THEN TickEnd({"unchanged"})
           ELSE IF outcome = "sync_error" THEN TickEnd({"sync_error"})
           ELSE /\ pc' = "render"
                /\ pre' = PreNone
                /\ ret' = "none"
                /\ UNCHANGED <<tk, ticked>>
    /\ UNCHANGED <<storeVars, remote, sr, ctxVars, hostVars, staged, clean, everStaged, reload_hist>>

\* create_config_with_include: fopen(config_path, "w") then fwrite
CreateConfigWithInclude ==
    /\ pc = "render"
    /\ \/ /\ files' = files
          /\ TickEnd({"render_error"})
       \/ /\ files' = files \cup {sha_config_path}
          /\ TickEnd({"render_error"})
       \/ /\ files' = files \cup {sha_config_path}
          /\ pc' = "add"
          /\ UNCHANGED <<pre, ret, tk, ticked>>
    /\ UNCHANGED <<fs, remote, sr, ctxVars, hostVars, staged, clean, everStaged, reload_hist>>

\* --------------------------------------------------------------- config_add
\* faulty variant: config_add does not copy cur to old
ConfigAddNoBackup ==
    /\ pc = "add"
    /\ pre' = Snapshot
    /\ staged' = NoStaged
    /\ pc' = "add_stale"
    /\ UNCHANGED <<storeVars, remote, sr, ret, ctxVars, hostVars, tk, clean, ticked, everStaged, reload_hist>>

\* faulty variant: without cur.ref, config_add copies new.ref to old.ref
ConfigAddBackupCandidate ==
    /\ pc = "add"
    /\ pre' = Snapshot
    /\ staged' = NoStaged
    /\ LET derefed == IF config_deref("cur") # NULL THEN config_deref("cur") ELSE config_deref("new")
       IN  IF derefed # NULL
           THEN /\ sr' = [ref_name |-> "old", config_path |-> derefed,
                          caller |-> "add_old", prior |-> fs[config_ref_filename("old")]]
                /\ pc' = "sr_open"
           ELSE /\ sr' = sr
                /\ pc' = "add_stale"
    /\ UNCHANGED <<storeVars, remote, ret, ctxVars, hostVars, tk, clean, ticked, everStaged, reload_hist>>

\* derefed_cur = config_deref("cur"); config_set_ref("old", derefed_cur)
ConfigAddBackup ==
    /\ pc = "add"
    /\ pre' = Snapshot
    /\ staged' = NoStaged
    /\ IF config_deref("cur") # NULL
       THEN /\ sr' = [ref_name |-> "old", config_path |-> config_deref("cur"),
                      caller |-> "add_old", prior |-> fs[config_ref_filename("old")]]
            /\ pc' = "sr_open"
       ELSE /\ sr' = sr
            /\ pc' = "add_stale"
    /\ UNCHANGED <<storeVars, remote, ret, ctxVars, hostVars, tk, clean, ticked, everStaged, reload_hist>>

\* faulty variant: cur.ref is removed before new.ref is written
ConfigAddRemoveCurFirst ==
    /\ pc = "add_stale"
    /\ files' = IF config_deref("new") # NULL /\ config_deref("new") # sha_config_path
                THEN files \ {config_deref("new")} ELSE files
    /\ fs' = [fs EXCEPT ![config_ref_filename("cur")] = NoFile]
    /\ sr' = [ref_name |-> "new", config_path |-> sha_config_path,
              caller |-> "add_new", prior |-> fs[config_ref_filename("new")]]
    /\ pc' = "sr_open"
    /\ UNCHANGED <<remote, ret, pre, ctxVars, hostVars, tk, histVars>>

\* faulty variant: the file new.ref names is removed also when it is the staged file
ConfigAddRemoveStaleAlways ==
    /\ pc = "add_stale"
    /\ files' = IF config_deref("new") # NULL THEN files \ {config_deref("new")} ELSE files
    /\ sr' = [ref_name |-> "new", config_path |-> sha_config_path,
              caller |-> "add_new", prior |-> fs[config_ref_filename("new")]]
    /\ pc' = "sr_open"
    /\ UNCHANGED <<fs, remote, ret, pre, ctxVars, hostVars, tk, histVars>>

\* faulty variant: the file a stale new.ref names is left on disk
ConfigAddKeepStale ==
    /\ pc = "add_stale"
    /\ sr' = [ref_name |-> "new", config_path |-> sha_config_path,
              caller |-> "add_new", prior |-> fs[config_ref_filename("new")]]
    /\ pc' = "sr_open"
    /\ UNCHANGED <<storeVars, remote, ret, pre, ctxVars, hostVars, tk, histVars>>

\* remove(derefed_new) when it differs; config_set_ref("new", config_path)
ConfigAddRemoveStale ==
    /\ pc = "add_stale"
    /\ files' = IF config_deref("new") # NULL /\ config_deref("new") # sha_config_path
                THEN files \ {config_deref("new")} ELSE files
    /\ sr' = [ref_name |-> "new", config_path |-> sha_config_path,
              caller |-> "add_new", prior |-> fs[config_ref_filename("new")]]
    /\ pc' = "sr_open"
    /\ UNCHANGED <<fs, remote, ret, pre, ctxVars, hostVars, tk, histVars>>

\* faulty variant: config_add keeps cur.ref
ConfigAddKeepCur ==
    /\ pc = "add_rmcur"
    /\ ret' = "ok"
    /\ everStaged' = TRUE
    /\ staged' = [config_path |-> sha_config_path, cur0 |-> pre.cur, old0 |-> pre.old]
    /\ pc' = "add_ret"
    /\ UNCHANGED <<storeVars, remote, sr, pre, ctxVars, hostVars, tk, clean, ticked, reload_hist>>

\* remove(cur_ref_file); return FLB_TRUE
ConfigAddRemoveCur ==
    /\ pc = "add_rmcur"
    /\ fs' = [fs EXCEPT ![config_ref_filename("cur")] = NoFile]
    /\ ret' = "ok"
    /\ everStaged' = TRUE
    /\ staged' = [config_path |-> sha_config_path, cur0 |-> pre.cur, old0 |-> pre.old]
    /\ pc' = "add_ret"
    /\ UNCHANGED <<files, remote, sr, pre, ctxVars, hostVars, tk, clean, ticked, reload_hist>>

\* faulty variant: a reload that cannot be started ends the tick without config_rollback
TriggerReloadNoRollback ==
    /\ pc = "add_ret"
    /\ IF ret = "ok"
       THEN \E outcome \in ReloadOutcomes :
                /\ execute_reload(sha_config_path, outcome)
                /\ IF outcome = "ok"
                   THEN TickEnd({"stage_ok", "reload_ok"})
                   ELSE TickEnd({"stage_ok", "reload_error"})
       ELSE /\ TickEnd({"stage_error"})
            /\ UNCHANGED <<hostVars, paused, reload_hist>>
    /\ UNCHANGED <<storeVars, remote, sr, pending_reload_config, coll_fd, staged, clean, everStaged>>

\* faulty variant: a failed config_add is followed by config_rollback
TriggerReloadRollbackOnStageFailure ==
    /\ pc = "add_ret"
    /\ IF ret = "ok"
       THEN \E outcome \in ReloadOutcomes :
                /\ execute_reload(sha_config_path, outcome)
                /\ IF outcome = "ok"
                   THEN TickEnd({"stage_ok", "reload_ok"})
                   ELSE /\ pc' = "rb_rmnew_cfg"
                        /\ tk' = [tk EXCEPT !.events = @ \cup {"stage_ok", "reload_error"}]
                        /\ pre' = PreNone
                        /\ ret' = "none"
                        /\ ticked' = ticked
       ELSE /\ pc' = "rb_rmnew_cfg"
            /\ tk' = [tk EXCEPT !.events = @ \cup {"stage_error"}]
            /\ pre' = PreNone
            /\ ret' = "none"
            /\ ticked' = ticked
            /\ UNCHANGED <<hostVars, paused, reload_hist>>
    /\ UNCHANGED <<storeVars, remote, sr, pending_reload_config, coll_fd, staged, clean, everStaged>>

\* the tick after config_add: abort, or execute_reload(sha_config_path)
TriggerReload ==
    /\ pc = "add_ret"
    /\ IF ret = "ok"
       THEN \E outcome \in ReloadOutcomes :
                /\ execute_reload(sha_config_path, outcome)
                /\ IF outcome = "ok"
                   THEN TickEnd({"stage_ok", "reload_ok"})
                   ELSE /\ pc' = "rb_rmnew_cfg"
                        /\ tk' = [tk EXCEPT !.events = @ \cup {"stage_ok", "reload_error"}]
                        /\ pre' = PreNone
                        /\ ret' = "none"
                        /\ ticked' = ticked
       ELSE /\ TickEnd({"stage_error"})
            /\ UNCHANGED <<hostVars, paused, reload_hist>>
    /\ UNCHANGED <<storeVars, remote, sr, pending_reload_config, coll_fd, staged, clean, everStaged>>

\* ---------------------------------------------------------- config_rollback
\* faulty variant: config_rollback leaves the failed configuration file on disk
ConfigRollbackKeepNew ==
    /\ pc = "rb_rmnew_cfg"
    /\ pre' = Snapshot
    /\ staged' = NoStaged
    /\ pc' = "rb_deref"
    /\ UNCHANGED <<storeVars, remote, sr, ret, ctxVars, hostVars, tk, clean, ticked, everStaged, reload_hist>>

\* faulty variant: config_rollback removes new.ref together with the file it names
ConfigRollbackRemoveNewAndRef ==
    /\ pc = "rb_rmnew_cfg"
    /\ pre' = Snapshot
    /\ staged' = NoStaged
    /\ files' = IF config_deref("new") # NULL THEN files \ {config_deref("new")} ELSE files
    /\ fs' = [fs EXCEPT ![config_ref_filename("new")] = NoFile]
    /\ pc' = "rb_deref"
    /\ UNCHANGED <<remote, sr, ret, ctxVars, hostVars, tk, clean, ticked, everStaged, reload_hist>>

\* remove(new_config_path)
ConfigRollbackRemoveNew ==
    /\ pc = "rb_rmnew_cfg"
    /\ pre' = Snapshot
    /\ staged' = NoStaged
    /\ files' = IF config_deref("new") # NULL THEN files \ {config_deref("new")} ELSE files
    /\ pc' = "rb_deref"
    /\ UNCHANGED <<fs, remote, sr, ret, ctxVars, hostVars, tk, clean, ticked, everStaged, reload_hist>>

\* old_config_path = config_deref("old"); config_set_ref("cur", old_config_path)
ConfigRollbackSetCur ==
    /\ pc = "rb_deref"
    /\ IF config_deref("old") = NULL
       THEN /\ ret' = "fail"
            /\ pc' = "rollback_ret"
            /\ sr' = sr
       ELSE /\ sr' = [ref_name |-> "cur", config_path |-> config_deref("old"),
                      caller |-> "rollback", prior |-> fs[config_ref_filename("cur")]]
            /\ pc' = "sr_open"
            /\ ret' = ret
    /\ UNCHANGED <<storeVars, remote, pre, ctxVars, hostVars, tk, histVars>>

\* faulty variant: config_rollback leaves new.ref in place
ConfigRollbackKeepNewRef ==
    /\ pc = "rb_rmnew"
    /\ pc' = "rb_rmoldref"
    /\ UNCHANGED <<storeVars, remote, frameVars, ctxVars, hostVars, tk, histVars>>

\* remove(new_ref_file)
ConfigRollbackRemoveNewRef ==
    /\ pc = "rb_rmnew"
    /\ fs' = [fs EXCEPT ![config_ref_filename("new")] = NoFile]
    /\ pc' = "rb_rmoldref"
    /\ UNCHANGED <<files, remote, frameVars, ctxVars, hostVars, tk, histVars>>

\* remove(old_ref_file); return FLB_TRUE
ConfigRollbackRemoveOldRef ==
    /\ pc = "rb_rmoldref"
    /\ fs' = [fs EXCEPT ![config_ref_filename("old")] = NoFile]
    /\ ret' = "ok"
    /\ pc' = "rollback_ret"
    /\ UNCHANGED <<files, remote, sr, pre, ctxVars, hostVars, tk, histVars>>

\* the tick returns after config_rollback
RollbackReturn ==
    /\ pc = "rollback_ret"
    /\ TickEnd({"rollback"})
    /\ UNCHANGED <<storeVars, remote, sr, ctxVars, hostVars, staged, clean, everStaged, reload_hist>>

\* ------------------------------------------------------------- environment
\* The process is killed and started again with its own configuration file.
\* A temporary file the kill leaves behind is dropped from the model: the
\* next config_set_ref of that slot truncates it and nothing else reads it.
Kill ==
    /\ pc # "init"
    /\ pc' = "init"
    /\ fs' = [f \in RefFiles |->
                 IF f \in {config_ref_filename(n) : n \in RefNames} THEN fs[f] ELSE NoFile]
    /\ sr' = NoFrame
    /\ ret' = "none"
    /\ pre' = PreNone
    /\ tk' = TkNone
    /\ pending_reload_config' = NULL
    /\ paused' = FALSE
    /\ hot_reloading' = FALSE
    /\ hot_reload_succeeded' = FALSE
    /\ conf_path_file' = LocalConf
    /\ sighup' = FALSE
    /\ clean' = (clean /\ pc = "idle")
    /\ reload_hist' = NoReloadHist
    /\ UNCHANGED <<files, remote, coll_fd, staged, ticked, everStaged>>

\* the host takes the reload signal
HostBeginReload ==
    /\ pc = "idle"
    /\ sighup
    /\ ~hot_reloading
    /\ hot_reloading' = TRUE
    /\ sighup' = FALSE
    /\ tk' = TkNone
    /\ UNCHANGED <<storeVars, remote, pc, frameVars, ctxVars, hot_reload_succeeded, conf_path_file, histVars>>

\* the host loaded the requested file: a new plugin instance starts on it
HostReloadSucceeds ==
    /\ pc = "idle"
    /\ hot_reloading
    /\ \E loaded \in files :
           /\ loaded \in StrEqPaths(conf_path_file)
           /\ conf_path_file' = loaded
    /\ hot_reloading' = FALSE
    /\ hot_reload_succeeded' = TRUE
    /\ pending_reload_config' = NULL
    /\ paused' = FALSE
    /\ pc' = "init"
    /\ tk' = TkNone
    /\ reload_hist' = [reload_hist EXCEPT !.reported = TRUE]
    /\ UNCHANGED <<storeVars, remote, frameVars, coll_fd, sighup, staged, clean, ticked, everStaged>>

\* the host could not load the requested file: the running instance goes on
HostReloadFails ==
    /\ pc = "idle"
    /\ hot_reloading
    /\ hot_reloading' = FALSE
    /\ paused' = FALSE
    /\ tk' = TkNone
    /\ UNCHANGED <<storeVars, remote, pc, frameVars, pending_reload_config, coll_fd, hot_reload_succeeded, conf_path_file, sighup, histVars>>

\* a new revision is pushed to the remote ref
RemoteChange ==
    /\ pc = "idle"
    /\ remote' \in Shas \ {remote}
    /\ tk' = TkNone
    /\ UNCHANGED <<storeVars, pc, frameVars, ctxVars, hostVars, histVars>>

Next ==
    \/ cb_git_config_init
    \/ CollectPending
    \/ CollectStart
    \/ CommitIfReloaded
    \/ SetRefOpen
    \/ SetRefWrite
    \/ SetRefClose
    \/ SetRefRename
    \/ ConfigCommitRemoveOld
    \/ ConfigCommitRemoveNewRef
    \/ ConfigCommitRemoveOldRef
    \/ Poll
    \/ CreateConfigWithInclude
    \/ ConfigAddBackup
    \/ ConfigAddRemoveStale
    \/ ConfigAddRemoveCur
    \/ TriggerReload
    \/ ConfigRollbackRemoveNew
    \/ ConfigRollbackSetCur
    \/ ConfigRollbackRemoveNewRef
    \/ ConfigRollbackRemoveOldRef
    \/ RollbackReturn
    \/ Kill
    \/ HostBeginReload
    \/ HostReloadSucceeds
    \/ HostReloadFails
    \/ RemoteChange

Spec == Init /\ [][Next]_vars

\* ------------------------------------------- the store operations on their own
\* The same operations, called one after the other in any order from the
\* point where the previous one returned, as the functions allow it.
ReturnPcs == {"idle", "reconciled", "add_ret", "rollback_ret", "set_ret"}

\* create_config_with_include(ctx, sha, content) then config_add(ctx, path)
CallConfigAdd ==
    /\ pc \in ReturnPcs
    /\ \E sha \in Shas :
           /\ remote' = sha
           /\ files' = files \cup {get_config_path_for_sha(sha)}
    /\ pc' = "add"
    /\ ret' = "none"
    /\ UNCHANGED <<fs, sr, pre, ctxVars, hostVars, tk, histVars>>

\* config_commit(ctx)
CallConfigCommit ==
    /\ pc \in ReturnPcs
    /\ pre' = Snapshot
    /\ ConfigCommitEnter
    /\ UNCHANGED <<storeVars, remote, ctxVars, hostVars, tk, clean, ticked, everStaged, reload_hist>>

\* config_rollback(ctx)
CallConfigRollback ==
    /\ pc \in ReturnPcs
    /\ pc' = "rb_rmnew_cfg"
    /\ ret' = "none"
    /\ UNCHANGED <<storeVars, remote, sr, pre, ctxVars, hostVars, tk, histVars>>

\* config_set_ref(ctx, ref_name, config_path)
CallConfigSetRef ==
    /\ pc \in ReturnPcs
    /\ \E ref_name \in RefNames, config_path \in Paths :
           sr' = [ref_name |-> ref_name, config_path |-> config_path,
                  caller |-> "direct", prior |-> fs[config_ref_filename(ref_name)]]
    /\ pre' = Snapshot
    /\ staged' = NoStaged
    /\ pc' = "sr_open"
    /\ ret' = "none"
    /\ UNCHANGED <<storeVars, remote, ctxVars, hostVars, tk, clean, ticked, everStaged, reload_hist>>

NextStore ==
    \/ cb_git_config_init
    \/ CallConfigAdd
    \/ CallConfigCommit
    \/ CallConfigRollback
    \/ CallConfigSetRef
    \/ SetRefOpen
    \/ SetRefWrite
    \/ SetRefClose
    \/ SetRefRename
    \/ ConfigCommitRemoveOld
    \/ ConfigCommitRemoveNewRef
    \/ ConfigCommitRemoveOldRef
    \/ ConfigAddBackup
    \/ ConfigAddRemoveStale
    \/ ConfigAddRemoveCur
    \/ ConfigRollbackRemoveNew
    \/ ConfigRollbackSetCur
    \/ ConfigRollbackRemoveNewRef
    \/ ConfigRollbackRemoveOldRef
    \/ Kill

SpecStore == Init /\ [][NextStore]_vars

\* ------------------------------------------------ recovery after one kill
\* The plugin runs as in Spec, without a failed pointer write, until it is
\* killed between two filesystem steps of config_add, config_commit or
\* config_rollback.  From the restart on the environment is helpful: the remote
\* ref stays where it is, the git calls and the file creation succeed, every
\* reload request is accepted and the host loads every file that exists.
SetRefPcs == {"sr_open", "sr_write", "sr_close", "sr_rename"}

OpPcs == SetRefPcs \cup {"add_stale", "add_rmcur", "commit_rmold", "commit_rmnewref", "commit_rmoldref",
                         "rb_deref", "rb_rmnew", "rb_rmoldref"}

\* what a tick records when the environment was not helpful
EnvTroubles == {"sha_error", "sync_error", "render_error", "reload_error", "pending_reload_error"}

\* the steps of Next the environment of this scenario allows
HelpfulAfterKill ==
    IF clean
    THEN clean' = TRUE
    ELSE /\ ret' # "io_fail"
         /\ tk'.events \cap EnvTroubles = {}
         /\ remote' = remote
         /\ ~(pc' = "init" /\ conf_path_file' = LocalConf)
         /\ (hot_reloading /\ ~hot_reloading' /\ pc' = pc) => conf_path_file \notin files

\* the kill inside an operation; the remote ref may be anywhere by the restart
KillInOperation ==
    /\ clean
    /\ pc \in OpPcs
    /\ pc' = "init"
    /\ fs' = [f \in RefFiles |->
                 IF f \in {config_ref_filename(n) : n \in RefNames} THEN fs[f] ELSE NoFile]
    /\ remote' \in Shas
    /\ sr' = NoFrame
    /\ ret' = "none"
    /\ pre' = PreNone
    /\ tk' = TkNone
    /\ pending_reload_config' = NULL
    /\ paused' = FALSE
    /\ hot_reloading' = FALSE
    /\ hot_reload_succeeded' = FALSE
    /\ conf_path_file' = LocalConf
    /\ sighup' = FALSE
    /\ clean' = FALSE
    /\ reload_hist' = NoReloadHist
    /\ UNCHANGED <<files, coll_fd, staged, ticked, everStaged>>

NextRecover ==
    \/ Next /\ HelpfulAfterKill
    \/ KillInOperation

SpecRecover == Init /\ [][NextRecover]_vars /\ WF_vars(NextRecover)

\* ------------------------------------------- the revision in a file name
\* The plugin starts on a cur.ref that names any of the paths below, so that
\* get_current_sha is applied to names of every shape.
Rep(ch, n) == [k \in 1..n |-> ch]

ExtractNames ==
    {ShaOf(1) \o YamlExt,
     Rep("a", ShaLen - 1) \o YamlExt,
     Rep("a", ShaLen + 1) \o YamlExt,
     <<"n", "o", "t", "a", "s", "h", "a">> \o YamlExt,
     ShaOf(1),
     ShaOf(1) \o <<".", "y", "m", "l">>,
     ShaOf(1) \o YamlExt \o <<".", "b", "a", "k">>,
     Rep("a", ShaLen - 6) \o YamlExt \o <<"a">> \o YamlExt,
     YamlExt}

ExtractInputs ==
    Paths
    \cup {configs_path \o <<FLB_DIRCHAR>> \o n : n \in ExtractNames}
    \cup {configs_path \o YamlExt \o <<FLB_DIRCHAR>> \o n : n \in ExtractNames}
    \cup ExtractNames

InitExtract ==
    /\ \E config_path \in ExtractInputs :
           fs = [f \in RefFiles |-> IF f = config_ref_filename("cur") THEN RefLine(config_path) ELSE NoFile]
    /\ files = {}
    /\ remote \in Shas
    /\ pc = "init"
    /\ sr = NoFrame
    /\ ret = "none"
    /\ pending_reload_config = NULL
    /\ coll_fd \in {0, 1}
    /\ paused = FALSE
    /\ hot_reloading = FALSE
    /\ hot_reload_succeeded = FALSE
    /\ conf_path_file = LocalConf
    /\ sighup = FALSE
    /\ pre = PreNone
    /\ tk = TkNone
    /\ staged = NoStaged
    /\ clean = TRUE
    /\ ticked = FALSE
    /\ everStaged = FALSE
    /\ reload_hist = NoReloadHist

NextExtract ==
    \/ cb_git_config_init
    \/ CollectPending
    \/ CollectStart
    \/ CommitIfReloaded
    \/ Poll
    \/ Kill

SpecExtract == InitExtract /\ [][NextExtract]_vars

\* --------------------------------------------------- damaged pointer files
\* The plugin starts on a store in which pointer files may be unreadable or
\* empty, beside missing and well-formed ones.
RefContents == {NoFile, Unreadable, <<>>} \cup {RefLine(config_path) : config_path \in Paths}

InitDamaged ==
    /\ \E cur_ref, new_ref, old_ref \in RefContents :
           /\ {cur_ref, new_ref, old_ref} \cap {Unreadable, <<>>} # {}
           /\ fs = [f \in RefFiles |->
                       CASE f = config_ref_filename("cur") -> cur_ref
                         [] f = config_ref_filename("new") -> new_ref
                         [] f = config_ref_filename("old") -> old_ref
                         [] OTHER -> NoFile]
    /\ files = Paths
    /\ remote \in Shas
    /\ pc = "init"
    /\ sr = NoFrame
    /\ ret = "none"
    /\ pending_reload_config = NULL
    /\ coll_fd = 1
    /\ paused = FALSE
    /\ hot_reloading = FALSE
    /\ hot_reload_succeeded = FALSE
    /\ conf_path_file = LocalConf
    /\ sighup = FALSE
    /\ pre = PreNone
    /\ tk = TkNone
    /\ staged = NoStaged
    /\ clean = TRUE
    /\ ticked = FALSE
    /\ everStaged = FALSE
    /\ reload_hist = NoReloadHist

SpecDamaged == InitDamaged /\ [][Next]_vars

\* ------------------------------------- runs without a kill and an I/O failure
\* The plugin with every pointer write and every write of a configuration file
\* succeeding and the process never killed; git, reload-thread and host reload
\* failures stay.
QuietStep ==
    /\ ret' # "io_fail"
    /\ "render_error" \notin tk'.events
    /\ ~(pc # "init" /\ pc' = "init" /\ ~hot_reload_succeeded')

NextQuiet == Next /\ QuietStep

SpecQuiet == Init /\ [][NextQuiet]_vars

\* ====================================================================
\* Properties
\* ====================================================================
Cur == config_deref("cur")
Candidate == config_deref("new")
Previous == config_deref("old")

\* current populated, candidate and previous absent
Steady == Cur # NULL /\ Candidate = NULL /\ Previous = NULL

\* the tick that has just returned to the timer
TickJustEnded == pc = "idle" /\ tk.events # {}

\* what a tick records when something outside the store went wrong, or when it
\* was the start-up reload tick
TickTroubles == {"pending_reload_ok", "pending_reload_error", "sha_error", "sync_error",
                 "render_error", "stage_error", "reload_error", "rollback"}


\* C1 (as claimed): once config_add has returned FLB_TRUE, in every state - at the
\* tick boundaries and between any two filesystem steps - at least one of cur.ref,
\* new.ref, old.ref names a configuration file that exists.
C1_AlwaysAValidConfiguration ==
    everStaged => \E n \in RefNames : config_deref(n) # NULL /\ config_deref(n) \in files

\* C2 (as claimed): after any non-empty sequence of ticks that ran to completion
\* (no kill inside a tick, no failed pointer write), the last of them without any
\* failure, the store is steady.
C2_SteadyAfterEveryTick ==
    (TickJustEnded /\ ticked /\ clean /\ tk.events \cap TickTroubles = {}) => Steady

\* C2 (amended): at every tick boundary of a run without a kill inside a tick and
\* without a failed pointer write, the store is steady, or a candidate is staged
\* and awaits reconciliation (new.ref present, cur.ref absent), or nothing was
\* staged yet (the three pointer files absent).
C2_TickBoundaryShape ==
    (pc = "idle" /\ clean) =>
        \/ Steady
        \/ (Candidate # NULL /\ Cur = NULL)
        \/ (Cur = NULL /\ Candidate = NULL /\ Previous = NULL /\ ~everStaged)

\* C2 witness: a tick has just committed and found the remote unchanged
C2_SteadyAfterCommit ==
    TickJustEnded /\ clean /\ Steady /\ tk.events = {"commit", "unchanged"}

\* C3: a canonical pointer file is absent or holds one complete line; while
\* config_set_ref runs, up to its rename, the canonical file of its slot holds what
\* it held when the call began, also when the process is killed there; when the call
\* returns FLB_TRUE the file holds the complete new line and when it returns
\* FLB_FALSE the file is as it was.
C3_CanonicalComplete ==
    /\ \A n \in RefNames : fs[config_ref_filename(n)] \in {NoFile} \cup {RefLine(q) : q \in Paths}
    /\ pc \in SetRefPcs => fs[config_ref_filename(sr.ref_name)] = sr.prior

C3_SetRefStep ==
    pc \in SetRefPcs /\ pc' \notin SetRefPcs =>
        fs'[config_ref_filename(sr.ref_name)] =
            IF pc' = "init" \/ ret' = "io_fail" THEN sr.prior ELSE RefLine(sr.config_path)

C3_AtomicPointerWrite == [](C3_CanonicalComplete) /\ [][C3_SetRefStep]_vars

\* C3 witness: the temporary file is half written while the canonical file of the
\* slot still holds the complete line of another path
C3_TornTempBesideOldRecord ==
    /\ pc = "sr_close"
    /\ fs[SrTemp] = TornLine(sr.config_path)
    /\ sr.prior \in {RefLine(q) : q \in Paths \ {sr.config_path}}
    /\ fs[SrRef] = sr.prior

\* C4 (scenario A): a tick that starts with cur.ref absent, commits nothing and meets
\* no failure ends with new.ref = configs/<remote sha>.yaml, cur.ref absent and a
\* reload of that path requested; and when commit_if_reloaded finds the host not
\* reloading, the last reload succeeded and the host running the target of new.ref,
\* whose file exists, then (unless a pointer write fails) config_commit has run and cur.ref holds that
\* target while new.ref and old.ref are absent.
C4_ScenarioA ==
    /\ (TickJustEnded /\ tk.cur = NULL /\ "commit" \notin tk.events /\ tk.events \cap TickTroubles = {}) =>
           /\ tk.events = {"stage_ok", "reload_ok"}
           /\ Candidate = sha_config_path
           /\ sha_config_path \in files
           /\ Cur = NULL
           /\ conf_path_file = sha_config_path
           /\ sighup
    /\ (pc = "reconciled" /\ ~tk.hot_reloading /\ tk.hot_reload_succeeded /\ tk.new # NULL
            /\ tk.new \in tk.files /\ tk.conf_path_file = tk.new /\ ret # "io_fail") =>
           /\ ret = "ok"
           /\ Cur = tk.new
           /\ Candidate = NULL
           /\ Previous = NULL

\* C4 witness: the first candidate ever staged has just been committed
C4_FirstCandidateCommitted ==
    /\ pc = "reconciled"
    /\ ret = "ok"
    /\ tk.cur = NULL
    /\ tk.old = NULL
    /\ tk.new = sha_config_path
    /\ Cur = sha_config_path
    /\ clean

\* C5 (as claimed, scenario B): a tick that starts with a candidate staged, old.ref
\* populated with another path, both files on disk, and the host reporting that the reload of that candidate failed (not
\* reloading, last reload not succeeded, no signal outstanding) and meets no failure
\* ends with the candidate's file deleted and cur.ref = the target old.ref had.
C5_RollbackAfterFailedReload ==
    (TickJustEnded /\ clean /\ tk.cur = NULL /\ tk.new # NULL /\ tk.old # NULL /\ tk.new # tk.old
        /\ {tk.new, tk.old} \subseteq tk.files /\ tk.conf_path_file = tk.new
        /\ ~tk.hot_reloading /\ ~tk.hot_reload_succeeded /\ ~tk.sighup
        /\ tk.events \cap TickTroubles = {}) =>
            (tk.new \notin files /\ Cur = tk.old)

\* C6: cb_git_config_init queues a reload exactly when some pointer file is
\* populated and the host's configuration path is the target of none of them, and
\* it queues the target of the first populated one of cur, new, old.
C6_Populated == {n \in RefNames : config_deref(n) # NULL}

C6_FirstPopulated ==
    LET order == <<"cur", "new", "old">>
        first == CHOOSE i \in 1..3 : order[i] \in C6_Populated /\ \A j \in 1..(i - 1) : order[j] \notin C6_Populated
    IN  config_deref(order[first])

C6_StartupStep ==
    pc = "init" /\ pc' = "idle" =>
        pending_reload_config' =
            IF C6_Populated # {} /\ \A n \in C6_Populated : config_deref(n) # conf_path_file
            THEN C6_FirstPopulated
            ELSE NULL

C6_StartupRecovery == [][C6_StartupStep]_vars

\* C6 witness (scenario C): restarted with cur.ref absent and a candidate, the
\* candidate's path is queued
C6_CandidateQueued ==
    /\ pc = "idle"
    /\ Cur = NULL
    /\ Candidate # NULL
    /\ pending_reload_config = Candidate

\* C7: when config_add(p) returns FLB_TRUE, and until the next config_add,
\* config_commit or config_rollback begins, new.ref = p, cur.ref is absent and
\* old.ref holds the target cur.ref had before the call, or what old.ref held before
\* the call when cur.ref was absent.
C7_AfterStage ==
    /\ (pc = "add_ret" /\ ret = "ok") => (staged # NoStaged /\ staged.config_path = sha_config_path)
    /\ staged # NoStaged =>
           /\ Candidate = staged.config_path
           /\ Cur = NULL
           /\ Previous = IF staged.cur0 # NULL THEN staged.cur0 ELSE staged.old0

\* C7 witness: staged over a populated cur.ref, now at a tick boundary
C7_StagedOverCurrent ==
    /\ pc = "idle"
    /\ staged # NoStaged
    /\ staged.cur0 # NULL
    /\ staged.cur0 # staged.config_path

C9_RollbackEndsSteady ==
    (pc = "rollback_ret" /\ ret \in {"ok", "fail"} /\ pre.old # NULL) =>
        /\ ret = "ok"
        /\ Cur = pre.old
        /\ Candidate = NULL
        /\ Previous = NULL
        /\ pre.new # NULL => pre.new \notin files

\* C9 witness: a rollback that discarded a candidate
C9_RollbackOverCandidate ==
    /\ pc = "rollback_ret"
    /\ ret = "ok"
    /\ pre.new # NULL
    /\ pre.new # pre.old
    /\ pre.new \in pre.files

\* C10 (as claimed): in a run of complete ticks, when config_commit or
\* config_rollback returns FLB_TRUE, exactly one of the files new.ref and old.ref
\* named before the call exists, and it is the file cur.ref now names.
C10_OneArtifactSurvives ==
    (clean /\ pc \in {"reconciled", "rollback_ret"} /\ ret = "ok") =>
        LET named == {pre.new, pre.old} \ {NULL}
        IN  /\ Cardinality(named \cap files) = 1
            /\ Cur \in named \cap files

\* C11: a config_commit called right after a config_commit that returned FLB_TRUE
\* finds no candidate, returns FLB_FALSE and changes no pointer file and no
\* configuration file.
C11_SecondCommitStep ==
    (pc = "reconciled" /\ ret = "ok" /\ (pc' = "reconciled" \/ (pc' = "sr_open" /\ sr'.caller = "commit"))) =>
        /\ ~config_ref_exists("new")
        /\ pc' = "reconciled"
        /\ ret' = "fail"
        /\ fs' = fs
        /\ files' = files

C11_CommitIdempotent == [][C11_SecondCommitStep]_vars

\* C11 witness: the second config_commit has returned FLB_FALSE on the steady store
\* the first one left
C11_NothingToCommit ==
    /\ pc = "reconciled"
    /\ ret = "fail"
    /\ Steady
    /\ pre.cur = Cur
    /\ pre.new = NULL
    /\ Cur \in files

\* C12: when config_set_ref(s, p) returns FLB_TRUE, config_deref(s) is p, and no
\* step of the call changes what the other two slots hold.
C12_SetRefReturnStep ==
    /\ (pc = "sr_rename" /\ pc' \notin {"sr_rename", "init"} /\ ret' # "io_fail") =>
           ReadLine(fs'[config_ref_filename(sr.ref_name)]) = sr.config_path
    /\ pc \in SetRefPcs =>
           \A n \in RefNames \ {sr.ref_name} :
               /\ fs'[config_ref_filename(n)] = fs[config_ref_filename(n)]
               /\ ReadLine(fs'[config_ref_filename(n)]) = config_deref(n)

C12_RoundTrip == [][C12_SetRefReturnStep]_vars

\* C12 witness: a direct config_set_ref has replaced the target of a slot while the
\* two other slots hold other values
C12_SlotRewritten ==
    /\ pc = "set_ret"
    /\ ret = "none"
    /\ \E n \in RefNames :
           /\ pre[n] # NULL
           /\ config_deref(n) # NULL
           /\ config_deref(n) # pre[n]
           /\ \A m \in RefNames \ {n} : config_deref(m) = pre[m]
    /\ \E m \in RefNames : config_deref(m) = NULL

FetchFailures == {"sha_error", "sync_error"}

\* C14 (as claimed): a tick in which the remote revision cannot be fetched, or the
\* repository cannot be synchronized or the file read, ends with the pointer files
\* and the configuration files as they were when the tick began, and requests no
\* reload.
C14_FetchFailureNoOp ==
    (TickJustEnded /\ tk.events \cap FetchFailures # {}
        /\ tk.events \cap {"pending_reload_ok", "pending_reload_error"} = {}) =>
            /\ Cur = tk.cur
            /\ Candidate = tk.new
            /\ Previous = tk.old
            /\ files = tk.files
            /\ sighup = tk.sighup

\* C14 (amended): in such a tick nothing changes after commit_if_reloaded has
\* returned and no reload is requested; when commit_if_reloaded committed nothing,
\* everything is as it was when the tick began.
C14_NoCommitTick ==
    (TickJustEnded /\ tk.events \cap FetchFailures # {} /\ "commit" \notin tk.events) =>
        /\ Cur = tk.cur
        /\ Candidate = tk.new
        /\ Previous = tk.old
        /\ files = tk.files
        /\ sighup = tk.sighup
        /\ tk.events \cap {"stage_ok", "stage_error", "reload_ok", "reload_error", "rollback"} = {}

C14_PollStep ==
    (pc = "reconciled" /\ pc' = "idle" /\ tk'.events \cap FetchFailures # {}) =>
        /\ fs' = fs
        /\ files' = files
        /\ sighup' = sighup
        /\ conf_path_file' = conf_path_file

C14_FetchFailureAfterReconcile == [](C14_NoCommitTick) /\ [][C14_PollStep]_vars

\* C14 witness: a tick committed the reloaded candidate and then could not
\* synchronize the repository
C14_CommitThenSyncError ==
    /\ TickJustEnded
    /\ tk.events = {"commit", "sync_error"}
    /\ tk.cur = NULL
    /\ Cur = tk.new
    /\ Steady

\* C15: when execute_reload fails after config_add returned FLB_TRUE, the tick calls
\* config_rollback before it ends; when old.ref was populated (and no pointer write
\* fails) config_rollback leaves cur.ref = the target of old.ref, new.ref and old.ref
\* absent and the staged file deleted, and the tick ends without touching the store
\* again.
C15_RollbackRan ==
    /\ (TickJustEnded /\ "reload_error" \in tk.events) => "rollback" \in tk.events
    /\ (pc \notin {"idle", "init"} /\ "reload_error" \in tk.events) =>
           pc \in {"rb_rmnew_cfg", "rb_deref", "rb_rmnew", "rb_rmoldref", "rollback_ret"} \cup SetRefPcs
    /\ (pc = "rollback_ret" /\ "reload_error" \in tk.events /\ pre.old # NULL /\ ret # "io_fail") =>
           /\ ret = "ok"
           /\ pre.new = sha_config_path
           /\ Cur = pre.old
           /\ Candidate = NULL
           /\ Previous = NULL
           /\ sha_config_path \notin files

C15_RollbackReturnStep ==
    (pc = "rollback_ret" /\ pc' = "idle") =>
        /\ fs' = fs
        /\ files' = files
        /\ "rollback" \in tk'.events

C15_RollbackOnTriggerFailure == [](C15_RollbackRan) /\ [][C15_RollbackReturnStep]_vars

\* C15 witness: the reload of a staged revision could not be started and
\* config_rollback has restored the configuration that ran before
C15_RolledBackToPrevious ==
    /\ pc = "rollback_ret"
    /\ "reload_error" \in tk.events
    /\ ret = "ok"
    /\ pre.old # NULL
    /\ pre.old # pre.new
    /\ Cur = pre.old
    /\ Cur \in files

PendingEvents == {"pending_reload_ok", "pending_reload_error"}

\* C16 (as claimed): a tick that finds a reload queued by start-up recovery issues
\* it and does nothing else, whatever execute_reload returns.
C16_PendingTickOnlyReloads ==
    (TickJustEnded /\ tk.events \cap PendingEvents # {}) => tk.events \subseteq PendingEvents

\* C16 (amended): when execute_reload accepts the queued reload the tick does nothing
\* else - no commit, no poll, no stage, no second reload request; when
\* execute_reload fails the tick goes on with the normal flow.
C16_PendingTick ==
    /\ (TickJustEnded /\ "pending_reload_ok" \in tk.events) =>
           /\ tk.events = {"pending_reload_ok"}
           /\ Cur = tk.cur
           /\ Candidate = tk.new
           /\ Previous = tk.old
           /\ files = tk.files
           /\ pending_reload_config = NULL
           /\ sighup
           /\ conf_path_file \in {tk.cur, tk.new, tk.old} \ {NULL}
    /\ (TickJustEnded /\ "pending_reload_error" \in tk.events) =>
           tk.events \cap {"sha_error", "unchanged", "sync_error", "render_error", "stage_ok", "stage_error"} # {}

\* C16 witness (scenario C): restarted on a staged candidate, the first tick has
\* issued the queued reload of the candidate and returned
C16_QueuedReloadIssued ==
    /\ TickJustEnded
    /\ tk.events = {"pending_reload_ok"}
    /\ tk.cur = NULL
    /\ tk.new # NULL
    /\ conf_path_file = tk.new
    /\ sighup

\* C17 (as claimed): config_commit without a candidate and config_rollback without
\* old.ref return FLB_FALSE and leave every pointer file and every configuration
\* file as it was.
C17_ProtocolViolationsNoOp ==
    /\ (pc = "reconciled" /\ ret = "fail" /\ pre.new = NULL) => Snapshot = pre
    /\ (pc = "rollback_ret" /\ ret = "fail" /\ pre.old = NULL) => Snapshot = pre

\* C18: when cur.ref is populated and the write of old.ref at the start of
\* config_add fails, config_add returns FLB_FALSE at once and the three slots and
\* the configuration files are as they were when it was called.
C18_BackupFailureStep ==
    (pc \in SetRefPcs /\ sr.caller = "add_old" /\ ret' = "io_fail") =>
        /\ pc' = "add_ret"
        /\ pre.cur # NULL
        /\ pre' = pre
        /\ ReadLine(fs'[config_ref_filename("cur")]) = pre.cur
        /\ ReadLine(fs'[config_ref_filename("new")]) = pre.new
        /\ ReadLine(fs'[config_ref_filename("old")]) = pre.old
        /\ \A n \in RefNames : fs'[config_ref_filename(n)] = fs[config_ref_filename(n)]
        /\ files' = pre.files

C18_StageBackupFailure == [][C18_BackupFailureStep]_vars

\* C18 witness: config_add has failed with cur.ref populated and the file of the
\* stale candidate, another revision, still on disk
C18_StaleCandidateKept ==
    /\ pc = "add_ret"
    /\ ret = "io_fail"
    /\ pre.cur # NULL
    /\ pre.new # NULL
    /\ pre.new # sha_config_path
    /\ pre.new \in files
    /\ Snapshot = pre

\* C19 (as claimed): a tick that finds the remote revision equal to the revision
\* in the name of the file cur.ref names changes no pointer file and no
\* configuration file and requests no reload.
C19_UnchangedTickNoOp ==
    (TickJustEnded /\ "unchanged" \in tk.events /\ tk.events \cap PendingEvents = {}
        /\ extract_sha_from_config_path(tk.cur) = remote) =>
            /\ Cur = tk.cur
            /\ Candidate = tk.new
            /\ Previous = tk.old
            /\ files = tk.files
            /\ sighup = tk.sighup

\* C19 (amended): once commit_if_reloaded has returned, a tick that finds the remote
\* revision equal to the revision in the name of the file cur.ref names does
\* nothing more; when commit_if_reloaded committed nothing, everything is as it was
\* when the tick began.
C19_NoCommitTick ==
    (TickJustEnded /\ "unchanged" \in tk.events /\ "commit" \notin tk.events) =>
        /\ Cur = tk.cur
        /\ Candidate = tk.new
        /\ Previous = tk.old
        /\ files = tk.files
        /\ sighup = tk.sighup
        /\ tk.events \cap {"stage_ok", "stage_error", "reload_ok", "reload_error", "rollback"} = {}

C19_PollStep ==
    /\ (pc = "reconciled" /\ pc' = "idle" /\ "unchanged" \in tk'.events) =>
           /\ Cur # NULL
           /\ extract_sha_from_config_path(Cur) = remote
    /\ (pc = "reconciled" /\ Cur # NULL /\ extract_sha_from_config_path(Cur) = remote
            /\ pc' \notin {"reconciled", "init"}) =>
           /\ pc' = "idle"
           /\ fs' = fs
           /\ files' = files
           /\ sighup' = sighup
           /\ conf_path_file' = conf_path_file

C19_UnchangedAfterReconcile == [](C19_NoCommitTick) /\ [][C19_PollStep]_vars

\* C19 witness: a tick on a steady store whose revision is the remote one
C19_SteadyUnchangedTick ==
    /\ TickJustEnded
    /\ tk.events = {"unchanged"}
    /\ tk.cur # NULL
    /\ Steady
    /\ Cur \in files

\* C20 (as claimed): no tick runs while a reload that execute_reload started is
\* still outstanding (signal not yet taken, or the host still reloading).
C20_NoTickWhileReloadOutstanding ==
    pc \notin {"idle", "init"} => ~(tk.sighup \/ tk.hot_reloading)

\* C21: commit_if_reloaded calls config_commit only when the host is not
\* reloading, the last reload succeeded, new.ref is populated and the host runs
\* the file new.ref names; in every other case it returns with the pointer files
\* and the configuration files as it found them.
C21_ReconcileStep ==
    (pc = "reconcile" /\ pc' \notin {"reconcile", "init"}) =>
        /\ fs' = fs
        /\ files' = files
        /\ pc' \in {"sr_open", "reconciled"}
        /\ pc' = "sr_open" =>
               /\ sr'.caller = "commit"
               /\ hot_reloading = FALSE
               /\ hot_reload_succeeded = TRUE
               /\ Candidate # NULL
               /\ conf_path_file = Candidate
        /\ (hot_reloading \/ ~hot_reload_succeeded \/ Candidate = NULL \/ conf_path_file # Candidate) =>
               pc' = "reconciled"

C21_NoCommitNoChange ==
    (pc = "reconciled" /\ "commit" \notin tk.events) =>
        /\ Snapshot = pre
        /\ Cur = tk.cur
        /\ Candidate = tk.new
        /\ Previous = tk.old
        /\ files = tk.files

C21_ReconcileCommitsOnlyReloadedCandidate == [](C21_NoCommitNoChange) /\ [][C21_ReconcileStep]_vars

\* C21 witness: commit_if_reloaded has called config_commit on the candidate the
\* host reloaded
C21_CommitCalled ==
    /\ pc = "sr_open"
    /\ sr.caller = "commit"
    /\ "commit" \in tk.events
    /\ hot_reload_succeeded
    /\ conf_path_file = Candidate
    /\ Candidate \in files

\* C22: every step changes at most one pointer file; config_add writes old.ref
\* before new.ref and removes cur.ref only once new.ref names the staged file;
\* config_commit and config_rollback write cur.ref before they remove new.ref and
\* old.ref; so at no point inside these operations are cur.ref and new.ref both
\* unpopulated when one of them was populated as the operation began.
C22_Changed == {n \in RefNames : fs'[config_ref_filename(n)] # fs[config_ref_filename(n)]}

C22_OrderedStep ==
    /\ Cardinality(C22_Changed) <= 1
    /\ ("new" \in C22_Changed /\ sr.caller = "add_new") =>
           (pre.cur = NULL \/ Previous = pre.cur)
    /\ ("cur" \in C22_Changed /\ pc = "add_rmcur") =>
           (Candidate = sha_config_path /\ Candidate' = Candidate)
    /\ ("cur" \in C22_Changed /\ fs'[config_ref_filename("cur")] = NoFile) => pc = "add_rmcur"
    /\ (C22_Changed \cap {"new", "old"} # {} /\ pc \in {"commit_rmnewref", "commit_rmoldref"}) =>
           (Cur # NULL /\ Cur = pre.new /\ Cur' = Cur)
    /\ (C22_Changed \cap {"new", "old"} # {} /\ pc \in {"rb_rmnew", "rb_rmoldref"}) =>
           (Cur # NULL /\ Cur = pre.old /\ Cur' = Cur)

C22_NeverBothAbsent ==
    (pre.cur # NULL \/ pre.new # NULL) => (Cur # NULL \/ Candidate # NULL)

C22_OrderedSlotMutations == [](C22_NeverBothAbsent) /\ [][C22_OrderedStep]_vars

\* C22 witness: inside config_add, old.ref and new.ref written, cur.ref not yet removed
C22_BeforeCurRemoved ==
    /\ pc = "add_rmcur"
    /\ pre.cur # NULL
    /\ Cur = pre.cur
    /\ Previous = pre.cur
    /\ Candidate = sha_config_path
    /\ Candidate # Cur

\* C23 (as claimed): after a kill inside config_add, config_commit or
\* config_rollback, with a helpful environment and the remote ref fixed, the store
\* comes to rest only with cur.ref naming the existing file of the remote
\* revision and new.ref, old.ref absent: a tick that finds the revision unchanged,
\* commits nothing and leaves no reload outstanding is repeated by every later
\* tick, so it must see that store.
Recovered ==
    /\ Cur = sha_config_path
    /\ Cur \in files
    /\ Candidate = NULL
    /\ Previous = NULL

C23_AtRestOnlyRecovered ==
    (~clean /\ TickJustEnded /\ tk.events = {"unchanged"}
        /\ ~sighup /\ ~hot_reloading /\ ~paused /\ pending_reload_config = NULL) => Recovered

\* C24: a configuration file disappears only in three steps: config_add removes
\* the file new.ref names when that is not the file being staged (never the staged
\* file), config_commit removes the file old.ref names, config_rollback removes the
\* file new.ref names; the steps that remove a pointer file remove no
\* configuration file.
C24_Deleted == files \ files'

C24_DeleteStep ==
    /\ C24_Deleted # {} => pc \in {"add_stale", "commit_rmold", "rb_rmnew_cfg"}
    /\ (pc = "add_stale" /\ pc' # "init") =>
           /\ C24_Deleted = IF Candidate # NULL /\ Candidate # sha_config_path
                            THEN {Candidate} \cap files ELSE {}
           /\ Candidate = pre.new
           /\ sha_config_path \notin C24_Deleted
    /\ (pc = "commit_rmold" /\ pc' # "init") =>
           C24_Deleted = IF Previous # NULL THEN {Previous} \cap files ELSE {}
    /\ (pc = "rb_rmnew_cfg" /\ pc' # "init") =>
           C24_Deleted = IF Candidate # NULL THEN {Candidate} \cap files ELSE {}
    /\ (\E n \in RefNames : fs[config_ref_filename(n)] # NoFile /\ fs'[config_ref_filename(n)] = NoFile) =>
           files' = files

C24_ExplicitDeletes == [][C24_DeleteStep]_vars

\* C24 witness: config_add has removed the file of a stale candidate and kept the
\* file it stages
C24_StaleCandidateRemoved ==
    /\ pc = "sr_open"
    /\ sr.caller = "add_new"
    /\ pre.new # NULL
    /\ pre.new # sha_config_path
    /\ pre.new \in pre.files
    /\ pre.new \notin files
    /\ sha_config_path \in files

\* C25 (as claimed): extract_sha_from_config_path returns the name before the
\* extension when that name has exactly 40 characters and NULL for every other
\* name, a name without the extension included; the path made for a revision
\* gives the revision back.
BaseName(config_path) == SubSeq(config_path, StrRChr(config_path, FLB_DIRCHAR) + 1, Len(config_path))

\* the name without its extension, NULL when it does not end in the extension
StemOf(base) ==
    IF Len(base) >= Len(YamlExt) /\ SubSeq(base, Len(base) - Len(YamlExt) + 1, Len(base)) = YamlExt
    THEN SubSeq(base, 1, Len(base) - Len(YamlExt))
    ELSE NULL

C25_RoundTrip == \A sha \in Shas : extract_sha_from_config_path(get_config_path_for_sha(sha)) = sha

FirstYamlAt(base, k) ==
    /\ k + Len(YamlExt) - 1 <= Len(base)
    /\ SubSeq(base, k, k + Len(YamlExt) - 1) = YamlExt
    /\ \A j \in 1..(k - 1) : SubSeq(base, j, j + Len(YamlExt) - 1) # YamlExt

C26_AbortStep ==
    (pc = "add_ret" /\ ret # "ok" /\ pc' # "init") =>
        /\ pc' = "idle"
        /\ tk'.events = tk.events \cup {"stage_error"}
        /\ fs' = fs
        /\ files' = files
        /\ sighup' = sighup
        /\ paused' = paused
        /\ hot_reloading' = hot_reloading
        /\ hot_reload_succeeded' = hot_reload_succeeded
        /\ conf_path_file' = conf_path_file
        /\ pending_reload_config' = NULL

C26_RepollStep ==
    (pc = "reconciled" /\ pc' = "idle" /\ "unchanged" \in tk'.events) =>
        (Cur # NULL /\ extract_sha_from_config_path(Cur) = remote)

C26_AbortedTick ==
    (TickJustEnded /\ "stage_error" \in tk.events) =>
        /\ tk.events \cap {"stage_ok", "reload_ok", "reload_error", "rollback"} = {}
        /\ sighup = tk.sighup
        /\ pending_reload_config = NULL
        /\ Candidate = tk.new \/ "commit" \in tk.events

C26_StageFailureAbortsTick == [](C26_AbortedTick) /\ [][C26_AbortStep /\ C26_RepollStep]_vars

\* C26 witness: a tick ended on a failed config_add with the remote revision still
\* not the current one
C26_StageFailed ==
    /\ TickJustEnded
    /\ "stage_error" \in tk.events
    /\ extract_sha_from_config_path(Cur) # remote

\* C27: config_deref returns NULL for a pointer file that is missing, cannot be
\* read or is empty, and config_add, config_commit, config_rollback,
\* commit_if_reloaded, the revision comparison and the start-up recovery go on with
\* such a slot as they do with a missing one.
C27_NoRecord(ref_name) == fs[config_ref_filename(ref_name)] \in {NoFile, Unreadable, <<>>}

C27_DerefAbsent ==
    \A n \in RefNames :
        /\ C27_NoRecord(n) => (config_deref(n) = NULL /\ ~config_ref_exists(n))
        /\ ~C27_NoRecord(n) => fs[config_ref_filename(n)] = RefLine(config_deref(n))

C27_AbsentStep ==
    /\ (pc = "init" /\ pc' = "idle") =>
           /\ pending_reload_config' # NULL =>
                  \E n \in RefNames : fs[config_ref_filename(n)] = RefLine(pending_reload_config')
           /\ (C27_NoRecord("cur") /\ ~C27_NoRecord("new") /\ conf_path_file = LocalConf) =>
                  pending_reload_config' = Candidate
           /\ (C27_NoRecord("cur") /\ C27_NoRecord("new") /\ ~C27_NoRecord("old") /\ conf_path_file = LocalConf) =>
                  pending_reload_config' = Previous
           /\ (\A n \in RefNames : C27_NoRecord(n)) => pending_reload_config' = NULL
    /\ (pc = "reconcile" /\ C27_NoRecord("new") /\ pc' # "init") =>
           (pc' = "reconciled" /\ fs' = fs /\ files' = files)
    /\ (pc = "reconciled" /\ C27_NoRecord("cur") /\ pc' # "init") =>
           (fs' = fs /\ files' = files /\ "unchanged" \notin tk'.events)
    /\ (pc = "add" /\ C27_NoRecord("cur") /\ pc' # "init") =>
           (pc' = "add_stale" /\ fs' = fs /\ files' = files)
    /\ (pc = "add_stale" /\ C27_NoRecord("new") /\ pc' # "init") =>
           (pc' = "sr_open" /\ fs' = fs /\ files' = files)
    /\ (pc = "commit_rmold" /\ C27_NoRecord("old") /\ pc' # "init") =>
           (pc' = "commit_rmnewref" /\ fs' = fs /\ files' = files)
    /\ (pc = "rb_rmnew_cfg" /\ C27_NoRecord("new") /\ pc' # "init") =>
           (pc' = "rb_deref" /\ fs' = fs /\ files' = files)
    /\ (pc = "rb_deref" /\ C27_NoRecord("old") /\ pc' # "init") =>
           (pc' = "rollback_ret" /\ ret' = "fail" /\ fs' = fs /\ files' = files)

C27_DamagedSlotIsAbsent == [](C27_DerefAbsent) /\ [][C27_AbsentStep]_vars

\* C27 witness: a tick has staged a configuration although cur.ref cannot be read
\* or is empty
C27_StagedOverDamagedCur ==
    /\ pc = "add_stale"
    /\ fs[config_ref_filename("cur")] \in {Unreadable, <<>>}
    /\ Previous = NULL
    /\ pre.cur = NULL

\* C28: when config_set_ref("new", config_path) fails inside config_add, config_add
\* returns FLB_FALSE with cur.ref as it was: cur and new name what they named when
\* config_add began, and old names what it named then or what cur named then.
C28_FailedStageStep ==
    (pc \in SetRefPcs /\ sr.caller = "add_new" /\ pc' = "add_ret") =>
        /\ ret' = "io_fail"
        /\ fs'[config_ref_filename("cur")] = fs[config_ref_filename("cur")]
        /\ pre' = pre
        /\ Cur' = pre.cur
        /\ pre.cur # NULL => fs'[config_ref_filename("cur")] # NoFile
        /\ Candidate' = pre.new
        /\ Previous' = IF pre.cur # NULL THEN pre.cur ELSE pre.old

C28_FailedStageKeepsCur == [][C28_FailedStageStep]_vars

\* C28 witness: config_add has failed after it moved old.ref to the target of cur
C28_StageFailedAfterBackup ==
    /\ pc = "add_ret"
    /\ ret = "io_fail"
    /\ pre.cur # NULL
    /\ pre.old # pre.cur
    /\ Previous = pre.cur
    /\ Cur = pre.cur

\* C29: when config_set_ref("cur", new_config_path) fails inside config_commit,
\* config_commit returns FLB_FALSE and cur.ref, new.ref, old.ref and the
\* configuration files are what they were when config_commit began.
C29_FailedCommitStep ==
    (pc \in SetRefPcs /\ sr.caller = "commit" /\ ret' = "io_fail") =>
        /\ pc' = "reconciled"
        /\ pre' = pre
        /\ fs'[config_ref_filename("cur")] = sr.prior
        /\ fs'[config_ref_filename("new")] = fs[config_ref_filename("new")]
        /\ fs'[config_ref_filename("old")] = fs[config_ref_filename("old")]
        /\ Cur' = pre.cur
        /\ Candidate' = pre.new
        /\ Candidate' # NULL
        /\ Previous' = pre.old
        /\ files' = pre.files

C29_FailedCommitChangesNothing ==
    /\ []((pc \in SetRefPcs /\ sr.caller = "commit") =>
              /\ config_deref("new") = pre.new
              /\ config_deref("old") = pre.old
              /\ files = pre.files)
    /\ [][C29_FailedCommitStep]_vars

\* C29 witness: config_commit has failed with new.ref and old.ref both in place
C29_CommitFailed ==
    /\ pc = "reconciled"
    /\ ret = "io_fail"
    /\ Candidate # NULL
    /\ Candidate \in files
    /\ Previous # NULL
    /\ Previous \in files
    /\ Cur = pre.cur

\* C30 (as claimed): in a run of ticks without a kill or a failed pointer write,
\* whenever config_commit has returned FLB_TRUE the file cur.ref names exists,
\* also when new.ref and old.ref named the same file.
C30_CommittedArtifactExists ==
    (clean /\ pc = "reconciled" /\ ret = "ok") => (Cur # NULL /\ Cur \in files)

\* C31 (as claimed): in a run of ticks without a kill or a failed pointer write,
\* whenever config_rollback has returned FLB_TRUE the file cur.ref names exists:
\* the file old.ref named was not removed by config_add, config_commit or
\* config_rollback itself.
C31_RolledBackArtifactExists ==
    (clean /\ pc = "rollback_ret" /\ ret = "ok") => (Cur # NULL /\ Cur = pre.old /\ Cur \in files)

\* C32 (as claimed): the path check_existing_config returns, kept in
\* pending_reload_config until the first tick, names a configuration file that
\* exists, whatever ticks, failed rollbacks and kills came before.
C32_PendingReloadExists ==
    pending_reload_config # NULL => pending_reload_config \in files

\* C33 (as claimed): commit_if_reloaded enters config_commit only when
\* execute_reload had started a reload of the very path new.ref names and the
\* host has reported a successful reload since.
C33_CommitOnlyAfterOwnReload ==
    [][(pc = "reconcile" /\ pc' = "sr_open") =>
           (reload_hist.reported /\ reload_hist.path = Candidate)]_vars

\* C34: in every state, also between two filesystem steps of config_add,
\* config_commit and config_rollback, after a kill and after a failed
\* config_set_ref, old.ref is never the only pointer file: when it names a path,
\* cur.ref or new.ref names one too.
C34_PreviousNeverAlone ==
    Previous # NULL => (Cur # NULL \/ Candidate # NULL)

\* C34 witness: the process was killed inside config_rollback, after the staged
\* file was removed and before cur.ref was written; old.ref and new.ref are left
C34_KilledInRollback ==
    /\ pc = "init"
    /\ ~clean
    /\ Previous # NULL
    /\ Cur = NULL
    /\ Candidate # NULL
    /\ Candidate \notin files

\* C35: in a run without a kill inside a tick and without a failed pointer write,
\* between two ticks cur.ref and new.ref never both name a path; once config_add
\* has returned FLB_TRUE one of the two does: cur.ref with new.ref absent, or
\* new.ref awaiting commit_if_reloaded with cur.ref absent.
C35_CurrentXorCandidate ==
    (pc = "idle" /\ clean) =>
        /\ ~(Cur # NULL /\ Candidate # NULL)
        /\ everStaged => (Cur # NULL \/ Candidate # NULL)

\* C35 witness: a tick has staged a second revision and returned; cur.ref is
\* removed and new.ref awaits the reload
C35_CandidateAwaits ==
    /\ TickJustEnded
    /\ clean
    /\ "stage_ok" \in tk.events
    /\ Candidate # NULL
    /\ Cur = NULL
    /\ tk.cur # NULL

\* C36: config_add(p) called again right after a config_add(p) that returned
\* FLB_TRUE returns FLB_TRUE with the three pointer files and the configuration
\* files as the first call left them: old.ref is not rewritten and p's file is not
\* removed.
C36_Staged == Cur = NULL /\ Candidate = sha_config_path /\ sha_config_path \in files

C36_AfterStage ==
    (pc = "add_ret" /\ ret = "ok") =>
        /\ C36_Staged
        /\ (pre.cur = NULL /\ pre.new = sha_config_path) => Snapshot = pre

C36_SecondStageStep ==
    /\ (pc = "add_ret" /\ ret = "ok" /\ pc' = "add" /\ remote' = remote) =>
           (fs' = fs /\ files' = files /\ C36_Staged')
    /\ (pc = "add" /\ pc' # "init" /\ C36_Staged) =>
           (pc' = "add_stale" /\ pre' = Snapshot /\ fs' = fs /\ files' = files)
    /\ (pc = "add_stale" /\ pc' # "init" /\ C36_Staged) =>
           (fs' = fs /\ files' = files)

C36_StageIdempotent == [](C36_AfterStage) /\ [][C36_SecondStageStep]_vars

\* C36 witness: the second config_add of the same path has returned FLB_TRUE on a
\* store that holds a previous configuration
C36_StagedTwice ==
    /\ pc = "add_ret"
    /\ ret = "ok"
    /\ pre.cur = NULL
    /\ pre.new = sha_config_path
    /\ pre.old # NULL
    /\ pre.old # sha_config_path
    /\ Snapshot = pre

C38_ReloadFailedStep ==
    \/ pc = "add_ret" /\ pc' = "rb_rmnew_cfg"
    \/ pc = "idle" /\ pc' = "reconcile" /\ "pending_reload_error" \in tk'.events

C38_NotPausedStep ==
    C38_ReloadFailedStep => (paused' = FALSE /\ sighup' = sighup /\ hot_reloading' = hot_reloading)

C38_AfterFailedReload ==
    /\ pc \in {"rb_rmnew_cfg", "rb_deref", "rb_rmnew", "rb_rmoldref", "rollback_ret"} => ~paused
    /\ (TickJustEnded /\ "reload_error" \in tk.events) => ~paused

C38_FailedReloadLeavesTimerRunning == [](C38_AfterFailedReload) /\ [][C38_NotPausedStep]_vars

\* C38 witness: with a collector id above 0, the signal thread could not be created
\* for the staged file and the tick has rolled back and returned
C38_RolledBackUnpaused ==
    /\ TickJustEnded
    /\ "rollback" \in tk.events
    /\ coll_fd > 0
    /\ conf_path_file = Dangling
    /\ ~paused

\* C39: pending_reload_config is set only by cb_git_config_init; the first tick of
\* the instance passes it to execute_reload and clears it, whatever execute_reload
\* returns, so no later tick of that instance finds it and issues it again.
C39_IssueStep == pc = "idle" /\ tk'.events \cap PendingEvents # {}

C39_PendingStep ==
    /\ (pending_reload_config' # NULL /\ pending_reload_config' # pending_reload_config) => pc = "init"
    /\ C39_IssueStep =>
           /\ pending_reload_config # NULL
           /\ pending_reload_config' = NULL
           /\ "pending_reload_ok" \in tk'.events => conf_path_file' = pending_reload_config
    /\ (pc = "idle" /\ pc' = "reconcile") => pending_reload_config' = NULL
    /\ (pc = "idle" /\ pc' = "reconcile" /\ pending_reload_config # NULL) => C39_IssueStep

C39_ClearedInsideTick == pc \notin {"init", "idle"} => pending_reload_config = NULL

C39_PendingReloadIssuedOnce == [](C39_ClearedInsideTick) /\ [][C39_PendingStep]_vars

\* C39 witness: execute_reload has failed on the queued path and the tick goes on
\* with the queue cleared
C39_FailedIssueCleared ==
    /\ pc = "reconcile"
    /\ "pending_reload_error" \in tk.events
    /\ conf_path_file = Dangling
    /\ pending_reload_config = NULL
    /\ Cur # NULL

====
